---- MODULE Spec2Model ----
(***************************************************************************)
(* A model of the feed ingestion pipeline of the RSS reader                *)
(* (utils/rss.py): the field extractors, the keyword filter, the per-feed  *)
(* cap, the raw cache and the aggregation loop of fetch_and_parse_feeds;   *)
(* of the two citation builders (utils/citation.py, app.py) and of the     *)
(* archive (utils/archive.py, app.py).                                     *)
(*                                                                         *)
(* Text is a sequence of one-character strings.  An HTML fragment is the   *)
(* sequence of nodes its parser yields: [text |-> chars] for a text node,  *)
(* [tag |-> name] for a tag and [tag |-> name, src |-> url] for a tag with *)
(* a src attribute.  A Python dict is a function whose DOMAIN is its keys. *)
(***************************************************************************)
EXTENDS Integers, Sequences, FiniteSets, TLC

VARIABLES
    feeds,        \* the argument `feeds` of fetch_and_parse_feeds
    pc,           \* position in fetch_and_parse_feeds, or the extractor run
    idx,          \* index of the feed the for loop is at
    all_entries,  \* the list all_entries
    fetched,      \* the urls handed to feedparser.parse, in order
    docs,         \* per feed: what feedparser.parse returned for it
    cache,        \* the cache directory: file name -> content
    cache_log,    \* per cache write attempted: <<feed index, outcome>>
    items,        \* per feed fetched: the list `items` before and after the cap
    raised,       \* the exception that left the function, or "" for none
    entry,        \* the argument of a function run on its own
    out,          \* what that function returned
    archive,      \* the archive file
    last_call     \* the last archive call, and the links removed since added

vars == <<feeds, pc, idx, all_entries, fetched, docs, cache, cache_log, items,
          raised, entry, out, archive, last_call>>

------------------------------------------------------------------------------
(* Bounds of the model *)

\* the most raw entries all the fetches of one run return together
MaxFetched == 3

------------------------------------------------------------------------------
(* Python values *)

\* None where text is expected: a one-element sequence no text equals
None == <<"None">>
\* None where a number, a datetime or a list is expected
NoValue == <<>>

\* bool(x) of a text value or None
Truthy(x) == x # None /\ x # <<>>

\* a or b
Or(a, b) == IF Truthy(a) THEN a ELSE b

\* d.get(k, default)
Get(d, k, default) == IF k \in DOMAIN d THEN d[k] ELSE default

UpperLetters == <<"A","B","C","D","E","F","G","H","I","J","K","L","M",
                  "N","O","P","Q","R","S","T","U","V","W","X","Y","Z">>
LowerLetters == <<"a","b","c","d","e","f","g","h","i","j","k","l","m",
                  "n","o","p","q","r","s","t","u","v","w","x","y","z">>
Digits == <<"0","1","2","3","4","5","6","7","8","9">>

Range(s) == {s[i] : i \in 1..Len(s)}

\* the lower-case letter of each upper-case letter
LowerOf ==
    [c \in Range(UpperLetters) |->
        LowerLetters[CHOOSE i \in 1..Len(UpperLetters) : UpperLetters[i] = c]]

LowerChar(c) == IF c \in DOMAIN LowerOf THEN LowerOf[c] ELSE c

\* str.lower()
Lower(s) == [i \in 1..Len(s) |-> LowerChar(s[i])]

\* str.isalnum() of one character
Alnum == Range(UpperLetters) \cup Range(LowerLetters) \cup Range(Digits)
IsAlnum(c) == c \in Alnum

\* k in text
Contains(k, text) ==
    \E i \in 0..(Len(text) - Len(k)) : SubSeq(text, i + 1, i + Len(k)) = k

RECURSIVE LStrip(_, _)
LStrip(s, chars) ==
    IF s # <<>> /\ Head(s) \in chars THEN LStrip(Tail(s), chars) ELSE s

RECURSIVE RStrip(_, _)
RStrip(s, chars) ==
    IF s # <<>> /\ s[Len(s)] \in chars
    THEN RStrip(SubSeq(s, 1, Len(s) - 1), chars)
    ELSE s

\* str.strip(chars)
StripChars(s, chars) == RStrip(LStrip(s, chars), chars)

\* str.strip()
Strip(s) == StripChars(s, {" "})

\* s[:n] for n >= 0
Prefix(s, n) == SubSeq(s, 1, IF n < Len(s) THEN n ELSE Len(s))

RECURSIVE Join(_, _)
\* sep.join(parts)
Join(parts, sep) ==
    IF parts = <<>> THEN <<>>
    ELSE IF Len(parts) = 1 THEN parts[1]
    ELSE parts[1] \o sep \o Join(Tail(parts), sep)

RECURSIVE SelectText(_)
\* the stripped, non-empty text nodes of a fragment, in document order
SelectText(nodes) ==
    IF nodes = <<>> THEN <<>>
    ELSE LET n == Head(nodes)
             t == IF "text" \in DOMAIN n THEN Strip(n.text) ELSE <<>>
         IN  (IF t # <<>> THEN <<t>> ELSE <<>>) \o SelectText(Tail(nodes))

\* BeautifulSoup(html, "html.parser").get_text(" ", strip=True)
GetText(html) == Join(SelectText(html), <<" ">>)

------------------------------------------------------------------------------
(* _safe_filename *)

SafeChar(ch) == IF IsAlnum(ch) THEN ch ELSE "_"

_safe_filename(name) ==
    LET stripped == Strip(name)
        keep == [i \in 1..Len(stripped) |-> SafeChar(stripped[i])]
        stem == StripChars(keep, {"_"})
    IN  Or(Prefix(stem, 80), <<"f","e","e","d">>)

------------------------------------------------------------------------------
(* Field extractors *)

\* isinstance(x, list), isinstance(x, dict): a list is [list |-> elements],
\* a dict is [dict |-> mapping], anything else is [str |-> chars]
IsList(x) == "list" \in DOMAIN x
IsDict(x) == "dict" \in DOMAIN x

\* the value getattr(entry, name, None) gives when the entry lacks the attribute
Missing == [none |-> TRUE]

\* s.startswith(p)
StartsWith(s, p) == Len(s) >= Len(p) /\ SubSeq(s, 1, Len(p)) = p

RECURSIVE FirstImg(_)
\* soup.find("img"): the first img tag of the fragment, or Missing
FirstImg(nodes) ==
    IF nodes = <<>> THEN Missing
    ELSE IF "tag" \in DOMAIN Head(nodes) /\ Head(nodes).tag = <<"i","m","g">>
         THEN Head(nodes)
         ELSE FirstImg(Tail(nodes))

_first_img_from_summary(summary_html) ==
    IF Len(summary_html) = 0 THEN None
    ELSE LET tag == FirstImg(summary_html)
         IN  IF tag # Missing /\ Truthy(Get(tag, "src", None))
             THEN tag.src
             ELSE None

\* the media_thumbnail step of _extract_thumbnail; None when it falls through
ThumbFromMediaThumbnail(e) ==
    LET mt == Get(e, "media_thumbnail", Missing)
    IN  IF IsList(mt) /\ mt.list # <<>> /\ IsDict(mt.list[1])
           /\ Truthy(Get(mt.list[1].dict, "url", None))
        THEN mt.list[1].dict.url
        ELSE None

\* one element of media_content qualifies
MediaOk(m) ==
    /\ IsDict(m)
    /\ Truthy(Get(m.dict, "url", None))
    /\ Get(m.dict, "medium", None) \in {None, <<"i","m","a","g","e">>}

RECURSIVE FirstMedia(_)
FirstMedia(mc) ==
    IF mc = <<>> THEN None
    ELSE IF MediaOk(Head(mc)) THEN Head(mc).dict.url
    ELSE FirstMedia(Tail(mc))

\* the media_content step of _extract_thumbnail
ThumbFromMediaContent(e) ==
    LET mc == Get(e, "media_content", Missing)
    IN  IF IsList(mc) THEN FirstMedia(mc.list) ELSE None

\* one element of links is an image enclosure
EnclosureOk(l) ==
    /\ IsDict(l)
    /\ Get(l.dict, "rel", None) = <<"e","n","c","l","o","s","u","r","e">>
    /\ StartsWith(Get(l.dict, "type", <<>>), <<"i","m","a","g","e","/">>)
    /\ Truthy(Get(l.dict, "href", None))

RECURSIVE FirstEnclosure(_)
FirstEnclosure(ls) ==
    IF ls = <<>> THEN None
    ELSE IF EnclosureOk(Head(ls)) THEN Head(ls).dict.href
    ELSE FirstEnclosure(Tail(ls))

\* the enclosure step of _extract_thumbnail; iterating a non-list raises,
\* which the step's except clause turns into falling through
ThumbFromEnclosure(e) ==
    LET ls == Get(e, "links", [list |-> <<>>])
    IN  IF IsList(ls) THEN FirstEnclosure(ls.list) ELSE None

\* the summary step of _extract_thumbnail
ThumbFromSummary(e) == _first_img_from_summary(Get(e, "summary", <<>>))

\* _extract_thumbnail looking at the summary before the media fields
ExtractThumbnailSummaryFirst(e) ==
    IF ThumbFromSummary(e) # None THEN ThumbFromSummary(e)
    ELSE IF ThumbFromMediaThumbnail(e) # None THEN ThumbFromMediaThumbnail(e)
    ELSE IF ThumbFromMediaContent(e) # None THEN ThumbFromMediaContent(e)
    ELSE ThumbFromEnclosure(e)

_extract_thumbnail(e) ==
    IF ThumbFromMediaThumbnail(e) # None THEN ThumbFromMediaThumbnail(e)
    ELSE IF ThumbFromMediaContent(e) # None THEN ThumbFromMediaContent(e)
    ELSE IF ThumbFromEnclosure(e) # None THEN ThumbFromEnclosure(e)
    ELSE ThumbFromSummary(e)

_extract_author(e) ==
    IF Truthy(Get(e, "author", None)) THEN e.author
    ELSE IF Truthy(Get(e, "dc_creator", None)) THEN e.dc_creator
    ELSE LET authors == Get(e, "authors", Missing)
         IN  IF IsList(authors) /\ authors.list # <<>>
             THEN LET first == authors.list[1]
                  IN  IF IsDict(first) /\ Truthy(Get(first.dict, "name", None))
                      THEN first.dict.name
                      ELSE IF "str" \in DOMAIN first THEN first.str
                      ELSE None
             ELSE None

IsLeap(y) == (y % 4 = 0 /\ y % 100 # 0) \/ y % 400 = 0

DaysInMonth(y, m) ==
    IF m = 2 THEN (IF IsLeap(y) THEN 29 ELSE 28)
    ELSE IF m \in {4, 6, 9, 11} THEN 30 ELSE 31

\* datetime(*t[:6]) of a time breakdown t; NoValue when the call raises
MakeDatetime(t) ==
    LET a == Prefix(t, 6)
        at(i) == IF Len(a) >= i THEN a[i] ELSE 0
    IN  IF /\ Len(a) >= 3
           /\ a[1] \in 1..9999
           /\ a[2] \in 1..12
           /\ a[3] \in 1..DaysInMonth(a[1], a[2])
           /\ at(4) \in 0..23
           /\ at(5) \in 0..59
           /\ at(6) \in 0..59
        THEN <<a[1], a[2], a[3], at(4), at(5), at(6)>>
        ELSE NoValue

Pad2(n) == <<Digits[(n \div 10) + 1], Digits[(n % 10) + 1]>>

\* dt.strftime("%Y-%m-%d"), the year padded to four digits
Strftime(dt) ==
    Pad2(dt[1] \div 100) \o Pad2(dt[1] % 100) \o <<"-">> \o Pad2(dt[2])
        \o <<"-">> \o Pad2(dt[3])

\* the datetime _extract_published settles on, NoValue for None
PublishedDt(e) ==
    IF Get(e, "published_parsed", NoValue) # NoValue
    THEN MakeDatetime(e.published_parsed)
    ELSE IF Get(e, "updated_parsed", NoValue) # NoValue
         THEN MakeDatetime(e.updated_parsed)
         ELSE NoValue

\* _extract_published with the raw fallback taking "updated" first
ExtractPublishedUpdatedFirst(e) ==
    LET dt == PublishedDt(e)
    IN  IF dt # NoValue
        THEN <<dt, Strftime(dt)>>
        ELSE <<NoValue,
               Or(Or(Get(e, "updated", None), Get(e, "published", None)), <<>>)>>

\* the pair (datetime or None, display string)
_extract_published(e) ==
    LET dt == PublishedDt(e)
    IN  IF dt # NoValue
        THEN <<dt, Strftime(dt)>>
        ELSE <<NoValue,
               Or(Or(Get(e, "published", None), Get(e, "updated", None)), <<>>)>>

------------------------------------------------------------------------------
(* fetch_and_parse_feeds: one iteration of the loop over the feeds *)

\* the default of feed.get("category", "Uncategorized")
Uncategorized == <<"U","n","c","a","t","e","g","o","r","i","z","e","d">>

\* [k.lower() for k in feed.get("filters", {}).get(which, [])]
Keywords(feed, which) ==
    LET ks == Get(Get(feed, "filters", <<>>), which, <<>>)
    IN  [i \in 1..Len(ks) |-> Lower(ks[i])]

\* entry.get("summary", "") or entry.get("description", "")
SummaryHtml(e) ==
    IF Len(Get(e, "summary", <<>>)) > 0
    THEN e.summary
    ELSE Get(e, "description", <<>>)

\* text_for_filter
TextForFilter(e) ==
    Lower(Get(e, "title", <<>>) \o <<" ">> \o GetText(SummaryHtml(e)))

\* Keep with the include test first: an include match keeps the entry
KeepIncludeFirst(e, include, exclude) ==
    LET text == TextForFilter(e)
    IN  IF include # <<>> /\ \E i \in 1..Len(include) : Contains(include[i], text)
        THEN TRUE
        ELSE IF include # <<>> THEN FALSE
        ELSE ~ (exclude # <<>>
                /\ \E i \in 1..Len(exclude) : Contains(exclude[i], text))

\* the entry gets past the two `continue` statements of the keyword filter
Keep(e, include, exclude) ==
    LET text == TextForFilter(e)
    IN  IF exclude # <<>> /\ \E i \in 1..Len(exclude) : Contains(exclude[i], text)
        THEN FALSE
        ELSE IF include # <<>>
                /\ ~ \E i \in 1..Len(include) : Contains(include[i], text)
             THEN FALSE
             ELSE TRUE

\* the dict `item`; snippet_length is None (NoValue) or <<number>>
MakeItem(e, category, url, snippet_len) ==
    [title            |-> Get(e, "title", <<>>),
     link             |-> Get(e, "link", None),
     published        |-> _extract_published(e)[2],
     published_parsed |-> _extract_published(e)[1],
     author           |-> _extract_author(e),
     summary          |-> SummaryHtml(e),
     source           |-> category,
     feed_url         |-> url,
     snippet_length   |-> snippet_len,
     thumbnail        |-> _extract_thumbnail(e)]

RECURSIVE FilteredItems(_, _)
\* `items` after the loop over parsed.entries
FilteredItems(entries, feed) ==
    IF entries = <<>> THEN <<>>
    ELSE (IF Keep(Head(entries), Keywords(feed, "include"), Keywords(feed, "exclude"))
          THEN <<MakeItem(Head(entries),
                          Get(feed, "category", Uncategorized),
                          feed.url,
                          Get(feed, "snippet_length", NoValue))>>
          ELSE <<>>)
         \o FilteredItems(Tail(entries), feed)

\* CappedItems with the test max_items >= 0: a cap of zero empties the list
CappedItemsFromZero(its, feed) ==
    IF "max_items" \in DOMAIN feed /\ feed.max_items >= 0
    THEN Prefix(its, feed.max_items)
    ELSE its

\* `items` after the per-feed item cap
CappedItems(its, feed) ==
    IF "max_items" \in DOMAIN feed /\ feed.max_items > 0
    THEN Prefix(its, feed.max_items)
    ELSE its

\* HasUrl testing `url is not None` only: an empty url is fetched
HasUrlKey(feed) == "url" \in DOMAIN feed

\* the negation of `not url`, url = feed.get("url")
HasUrl(feed) == Truthy(Get(feed, "url", None))

\* Extend putting the new items in front
ExtendFront(all, its) == its \o all

\* all_entries.extend(items)
Extend(all, its) == all \o its

\* CacheName with the category itself as the stem
CacheNameRaw(feed) ==
    Get(feed, "category", Uncategorized) \o <<".","j","s","o","n">>

\* the name of the cache file of a feed
CacheName(feed) ==
    _safe_filename(Get(feed, "category", Uncategorized))
        \o <<".","j","s","o","n">>

\* the cache directory after the write of `entries` to `name` ended `outcome`:
\* written whole, not opened (open raised), or opened and cut short (json.dump
\* raised after open truncated the file)
CacheAfter(c, name, entries, outcome) ==
    IF outcome = "written" THEN (name :> [whole |-> TRUE, entries |-> entries]) @@ c
    ELSE IF outcome = "open_raised" THEN c
    ELSE (name :> [whole |-> FALSE, entries |-> <<>>]) @@ c

CacheOutcomes == {"written", "open_raised", "dump_raised"}

------------------------------------------------------------------------------
(* The inputs: feed lists and the documents feedparser returns *)

SeqsUpTo(S, n) == UNION {[1..k -> S] : k \in 0..n}

U1 == <<"u","1">>
U2 == <<"u","2">>
L1 == <<"L","1">>
L2 == <<"L","2">>
Img == <<"i","m","g">>

\* matches the include keyword only; dated, with author and picture
Entry1 ==
    [title |-> <<"A","i">>, link |-> L1,
     summary |-> << [tag |-> Img, src |-> <<"p">>] >>,
     published_parsed |-> <<2024, 2, 29, 10, 0, 0, 3, 60, 0>>,
     author |-> <<"a">>]
\* matches the exclude keyword only, in the text of its description; the link
\* of Entry1
Entry2 ==
    [title |-> <<"x">>, link |-> L1,
     description |-> << [tag |-> <<"b">>], [text |-> <<" ","S"," ">>],
                        [tag |-> <<"/","b">>] >>,
     published |-> <<"2","0","2","4","-","0","1","-","0","2","T","0","9">>]
\* matches neither keyword: "a" and "i" are separated by the joining space
Entry3 ==
    [title |-> <<"a">>, link |-> L2, summary |-> << [text |-> <<"i">>] >>]
\* matches both keywords; has no link and no date
Entry4 ==
    [title |-> <<"A","I"," ","s">>]

RawEntries == {Entry1, Entry2, Entry3, Entry4}

\* parsed.entries: up to n raw entries, no entry twice in one document
Documents(n) ==
    {d \in SeqsUpTo(RawEntries, n) :
        \A i, j \in 1..Len(d) : i # j => d[i] # d[j]}

\* a dict with the key k only when `present`
Opt(k, present, v) == IF present THEN k :> v ELSE <<>>

FilterChoices ==
    {<<>>,
     [include |-> <<>>, exclude |-> <<>>],
     [include |-> << <<"A","I">> >>],
     [exclude |-> << <<"S">> >>],
     [include |-> << <<"q">>, <<"A","I">> >>, exclude |-> << <<"S">> >>]}

\* every configuration of one feed the model draws from
SingleFeeds ==
    {   Opt("url", u # None, u) @@ Opt("category", c # None, c)
     @@ Opt("filters", f # <<>>, f) @@ Opt("max_items", m # NoValue, m[1])
     : u \in {None, <<>>, U1},
       c \in {<<"T">>},
       f \in FilterChoices,
       m \in {NoValue, <<-1>>, <<0>>, <<1>>, <<2>>} }

\* the configurations feed lists of more than one feed are made of
FeedChoices ==
    {[url |-> U1, category |-> <<"T">>, snippet_length |-> <<250>>],
     [url |-> U2, category |-> <<"T","!">>,
      filters |-> [include |-> << <<"A","I">> >>], max_items |-> 1],
     [category |-> <<"T">>],
     [url |-> U2, filters |-> [exclude |-> << <<"S">> >>], max_items |-> 0],
     [url |-> <<>>, category |-> <<"!">>]}

\* feeds whose category is empty or has no letter or digit
SymbolFeeds ==
    {[url |-> U1, category |-> c] : c \in {<<>>, <<"!">>, <<" ","-","_">>}}

\* the empty list, every single feed, and every pair of FeedChoices
FeedLists ==
    {<<>>} \cup {<<f>> : f \in SingleFeeds \cup FeedChoices \cup SymbolFeeds}
        \cup {<<f, g>> : f \in FeedChoices, g \in FeedChoices}

------------------------------------------------------------------------------
(* fetch_and_parse_feeds *)

RECURSIVE SumLen(_, _)
SumLen(f, S) ==
    IF S = {} THEN 0
    ELSE LET i == CHOOSE j \in S : TRUE IN Len(f[i]) + SumLen(f, S \ {i})

\* the raw entries fetched so far in this run
Fetched == SumLen(docs, DOMAIN docs)

Idle == [none |-> TRUE]

\* no file at the path of the archive
NoFile == [kind |-> "missing"]

Init ==
    /\ feeds \in FeedLists
    /\ pc = "start"
    /\ idx = 1
    /\ all_entries = <<>>
    /\ fetched = <<>>
    /\ docs = <<>>
    /\ cache = <<>>
    /\ cache_log = <<>>
    /\ items = <<>>
    /\ raised = ""
    /\ archive = NoFile
    /\ last_call = Idle
    /\ entry = Idle
    /\ out = Idle

\* os.makedirs(cache_dir, exist_ok=True) returns
MakeDirs ==
    /\ pc = "start"
    /\ pc' = "loop"
    /\ UNCHANGED <<feeds, idx, all_entries, fetched, docs, cache, cache_log,
                   items, raised, entry, out,
                   archive, last_call>>

\* os.makedirs raises (the path is a file, or may not be created): nothing
\* catches it
MakeDirsRaises ==
    /\ pc = "start"
    /\ pc' = "raised"
    /\ raised' = "makedirs"
    /\ UNCHANGED <<feeds, idx, all_entries, fetched, docs, cache, cache_log,
                   items, entry, out,
                   archive, last_call>>

\* `if not url: continue`
SkipFeed ==
    /\ pc = "loop"
    /\ idx <= Len(feeds)
    /\ ~ HasUrl(feeds[idx])
    /\ idx' = idx + 1
    /\ UNCHANGED <<feeds, pc, all_entries, fetched, docs, cache, cache_log,
                   items, raised, entry, out,
                   archive, last_call>>

\* the rest of the loop body for a feed with a url, feedparser.parse returning
\* a document with the entries `doc` and the cache write ending `outcome`
FetchFeed ==
    /\ pc = "loop"
    /\ idx <= Len(feeds)
    /\ HasUrl(feeds[idx])
    /\ \E doc \in Documents(MaxFetched - Fetched) :
          LET feed == feeds[idx]
              filtered == FilteredItems(doc, feed)
              capped == CappedItems(filtered, feed)
          IN  /\ fetched' = Append(fetched, [feed |-> idx, url |-> feed.url])
              /\ docs' = (idx :> doc) @@ docs
              /\ items' = (idx :> [filtered |-> filtered, capped |-> capped])
                              @@ items
              /\ all_entries' = Extend(all_entries, capped)
              /\ \E outcome \in CacheOutcomes :
                    /\ cache' = CacheAfter(cache, CacheName(feed), doc, outcome)
                    /\ cache_log' = Append(cache_log, <<idx, outcome>>)
    /\ idx' = idx + 1
    /\ UNCHANGED <<feeds, pc, raised, entry, out,
                   archive, last_call>>

\* feedparser.parse(url) raises: the call is in no try block
ParseRaises ==
    /\ pc = "loop"
    /\ idx <= Len(feeds)
    /\ HasUrl(feeds[idx])
    /\ fetched' = Append(fetched, [feed |-> idx, url |-> feeds[idx].url])
    /\ pc' = "raised"
    /\ raised' = "parse"
    /\ UNCHANGED <<feeds, idx, all_entries, docs, cache, cache_log, items,
                   entry, out,
                   archive, last_call>>

\* return all_entries
Return ==
    /\ pc = "loop"
    /\ idx > Len(feeds)
    /\ pc' = "returned"
    /\ UNCHANGED <<feeds, idx, all_entries, fetched, docs, cache, cache_log,
                   items, raised, entry, out,
                   archive, last_call>>

Next ==
    \/ MakeDirs
    \/ MakeDirsRaises
    \/ SkipFeed
    \/ FetchFeed
    \/ ParseRaises
    \/ Return

Spec == Init /\ [][Next]_vars

------------------------------------------------------------------------------
(* The field extractors run on their own, on entries of every shape *)

Png == <<"p">>
Jpg == <<"j">>
Gif == <<"g">>
Src == <<"s">>
Image == <<"i","m","a","g","e">>
Video == <<"v","i","d","e","o">>
Enclosure == <<"e","n","c","l","o","s","u","r","e">>
ImagePng == <<"i","m","a","g","e","/","p","n","g">>

\* a raw date string longer than ten characters, and a short one
RawLong == <<"M","o","n",","," ","0","1"," ","J","a","n"," ","2","4">>
RawShort == <<"2","0","2","4">>
RawOther == <<"2","0","2","5","-","0","3","-","0","4","T","0","5">>

\* time breakdowns: two that convert, and four that datetime() refuses
ParsedChoices ==
    {<<2024, 2, 29, 10, 0, 0, 3, 60, 0>>,
     <<2025, 12, 31, 23, 59, 59, 2, 365, 0>>,
     <<2024, 13, 1, 0, 0, 0, 0, 1, 0>>,
     <<2025, 2, 29, 0, 0, 0, 0, 1, 0>>,
     <<2024, 1, 1, 24, 0, 0, 0, 1, 0>>,
     <<2024, 1>>}

PublishedEntries ==
    {   Opt("published_parsed", pp # NoValue, pp)
     @@ Opt("updated_parsed", up # NoValue, up)
     @@ Opt("published", p # None, p)
     @@ Opt("updated", u # None, u)
     : pp \in {NoValue} \cup ParsedChoices,
       up \in {NoValue} \cup ParsedChoices,
       p \in {None, <<>>, RawLong, RawShort},
       u \in {None, <<>>, RawOther} }

InitPublished ==
    /\ entry \in PublishedEntries
    /\ out = Idle
    /\ pc = "extract"
    /\ feeds = <<>>
    /\ idx = 1
    /\ all_entries = <<>>
    /\ fetched = <<>>
    /\ docs = <<>>
    /\ cache = <<>>
    /\ cache_log = <<>>
    /\ items = <<>>
    /\ raised = ""
    /\ archive = NoFile
    /\ last_call = Idle

\* dt, display_date = _extract_published(entry)
ExtractPublished ==
    /\ pc = "extract"
    /\ out' = _extract_published(entry)
    /\ pc' = "extracted"
    /\ UNCHANGED <<feeds, idx, all_entries, fetched, docs, cache, cache_log,
                   items, raised, entry,
                   archive, last_call>>

NextPublished == ExtractPublished

SpecPublished == InitPublished /\ [][NextPublished]_vars

MediaThumbnailChoices ==
    {Missing,
     [str |-> Png],
     [list |-> <<>>],
     [list |-> << [str |-> Png] >>],
     [list |-> << [dict |-> <<>>] >>],
     [list |-> << [dict |-> [url |-> <<>>]], [dict |-> [url |-> Png]] >>],
     [list |-> << [dict |-> [url |-> Png]] >>]}

MediaContentChoices ==
    {Missing,
     [str |-> Jpg],
     [list |-> << [dict |-> [url |-> Jpg, medium |-> Video]] >>],
     [list |-> << [dict |-> [url |-> Jpg]] >>],
     [list |-> << [dict |-> [medium |-> Image]],
                  [dict |-> [url |-> Png, medium |-> Video]],
                  [dict |-> [url |-> Jpg, medium |-> Image]],
                  [dict |-> [url |-> Gif]] >>],
     [list |-> << [str |-> Jpg], [dict |-> [url |-> <<>>]] >>]}

LinksChoices ==
    {Missing,
     [str |-> Gif],
     [list |-> << [dict |-> [rel |-> Enclosure, type |-> ImagePng, href |-> Gif]] >>],
     [list |-> << [dict |-> [rel |-> Enclosure, type |-> Video, href |-> Gif]] >>],
     [list |-> << [dict |-> [rel |-> <<"a">>, type |-> ImagePng, href |-> Png]],
                  [dict |-> [rel |-> Enclosure, href |-> Png]],
                  [dict |-> [rel |-> Enclosure, type |-> ImagePng]],
                  [dict |-> [rel |-> Enclosure, type |-> ImagePng, href |-> Gif]],
                  [dict |-> [rel |-> Enclosure, type |-> ImagePng, href |-> Jpg]] >>]}

SummaryChoices ==
    {Missing,
     [html |-> <<>>],
     [html |-> << [text |-> <<"x">>] >>],
     [html |-> << [text |-> <<"x">>], [tag |-> Img, src |-> Src] >>],
     [html |-> << [tag |-> Img], [tag |-> Img, src |-> Src] >>],
     [html |-> << [tag |-> <<"b">>], [tag |-> Img, src |-> Src],
                  [tag |-> Img, src |-> Png] >>]}

ThumbnailEntries ==
    {   Opt("media_thumbnail", mt # Missing, mt)
     @@ Opt("media_content", mc # Missing, mc)
     @@ Opt("links", ls # Missing, ls)
     @@ Opt("summary", sm # Missing, Get(sm, "html", <<>>))
     : mt \in MediaThumbnailChoices,
       mc \in MediaContentChoices,
       ls \in LinksChoices,
       sm \in SummaryChoices }

InitThumbnail ==
    /\ entry \in ThumbnailEntries
    /\ out = Idle
    /\ pc = "extract"
    /\ feeds = <<>>
    /\ idx = 1
    /\ all_entries = <<>>
    /\ fetched = <<>>
    /\ docs = <<>>
    /\ cache = <<>>
    /\ cache_log = <<>>
    /\ items = <<>>
    /\ raised = ""
    /\ archive = NoFile
    /\ last_call = Idle

\* thumb = _extract_thumbnail(entry)
ExtractThumbnail ==
    /\ pc = "extract"
    /\ out' = _extract_thumbnail(entry)
    /\ pc' = "extracted"
    /\ UNCHANGED <<feeds, idx, all_entries, fetched, docs, cache, cache_log,
                   items, raised, entry,
                   archive, last_call>>

NextThumbnail == ExtractThumbnail

SpecThumbnail == InitThumbnail /\ [][NextThumbnail]_vars

------------------------------------------------------------------------------
(* What the claims speak of *)

Min(a, b) == IF a < b THEN a ELSE b

\* matchText of an entry: lowercase(title + " " + plainText(summary))
MatchText(e) ==
    Lower(Get(e, "title", <<>>) \o <<" ">>
            \o GetText(IF Len(Get(e, "summary", <<>>)) > 0 THEN e.summary
                       ELSE Get(e, "description", <<>>)))

\* the keywords of a feed, lower-cased, as a set
KeywordSet(feed, which) ==
    {Lower(k) : k \in Range(Get(Get(feed, "filters", <<>>), which, <<>>))}

\* the reference filter of the specification
RefAccepts(e, feed) ==
    LET inc == KeywordSet(feed, "include")
        exc == KeywordSet(feed, "exclude")
    IN  CASE exc # {} /\ (\E k \in exc : Contains(k, MatchText(e))) -> FALSE
          [] inc # {} /\ (\A k \in inc : ~ Contains(k, MatchText(e))) -> FALSE
          [] OTHER -> TRUE

\* the positions of the entries of feed i that the reference filter accepts
Survivors(i) == {j \in 1..Len(docs[i]) : RefAccepts(docs[i][j], feeds[i])}

\* item `it` is the Article of entry e of feed f: same title, link, summary,
\* and the category and url of the feed
ArticleOf(it, e, f) ==
    /\ it.title = Get(e, "title", <<>>)
    /\ it.link = Get(e, "link", None)
    /\ it.summary = (IF Len(Get(e, "summary", <<>>)) > 0 THEN e.summary
                     ELSE Get(e, "description", <<>>))
    /\ it.source = Get(f, "category", Uncategorized)
    /\ it.feed_url = f.url

\* the sequence its is made of the Articles of the entries of feed i at the
\* positions pos, in increasing position
ArticlesOf(its, i, pos) ==
    LET order == SelectSeq([j \in 1..Len(docs[i]) |-> j], LAMBDA j : j \in pos)
    IN  /\ Len(its) = Len(order)
        /\ \A p \in 1..Len(its) : ArticleOf(its[p], docs[i][order[p]], feeds[i])

\* the n smallest members of a set of positions
Smallest(pos, n) == {j \in pos : Cardinality({k \in pos : k < j}) < n}

\* C1: the returned list holds at most one Article per non-empty link (two
\* entries with the same link, from one source or two, give one Article)
C1_OnePerLink ==
    pc = "returned" =>
        \A p, q \in 1..Len(all_entries) :
            (p < q /\ Truthy(all_entries[p].link))
                => all_entries[p].link # all_entries[q].link

C3_CapOnSurvivors ==
    /\ \A i \in DOMAIN items :
        LET k == Cardinality(Survivors(i))
            n == IF "max_items" \in DOMAIN feeds[i] /\ feeds[i].max_items > 0
                 THEN Min(feeds[i].max_items, k)
                 ELSE k
        IN  ArticlesOf(items[i].capped, i, Smallest(Survivors(i), n))
    /\ Len(all_entries) =
         SumLen([i \in DOMAIN items |-> items[i].capped], DOMAIN items)
    /\ \A i \in DOMAIN items :
        LET before == SumLen([j \in DOMAIN items |-> items[j].capped],
                             {j \in DOMAIN items : j < i})
        IN  SubSeq(all_entries, before + 1, before + Len(items[i].capped))
                = items[i].capped

\* a feed capped at 1 whose first entry was rejected and which had two
\* survivors contributed the first survivor only
C3_Witness ==
    /\ pc = "returned"
    /\ \E i \in DOMAIN items :
        /\ "max_items" \in DOMAIN feeds[i] /\ feeds[i].max_items = 1
        /\ docs[i] = <<Entry2, Entry3, Entry1>>
        /\ Survivors(i) = {2, 3}
        /\ all_entries = items[i].capped
        /\ Len(all_entries) = 1
        /\ all_entries[1].title = Entry3.title

\* C4: the entry point never raises on a failing fetch, and returns having
\* fetched every feed that has a url
C4_FetchNeverRaises ==
    /\ ~ (pc = "raised" /\ raised = "parse")
    /\ pc = "returned" =>
          \A i \in 1..Len(feeds) :
              ("url" \in DOMAIN feeds[i] /\ feeds[i].url # <<>>) => i \in DOMAIN docs

\* C5: a failure of the cache side effect never surfaces to the caller
C5_CacheNeverRaises == ~ (pc = "raised" /\ raised = "makedirs")


\* a feed has no url: the key is missing or its value is empty
NoUrl(feed) == "url" \notin DOMAIN feed \/ feed.url = <<>>

\* C6: for a feed without url nothing is fetched, no cache write is attempted
\* and no Article is made; the feeds with a url are all fetched, and the
\* returned list is what they contribute
C6_NoUrlSkipped ==
    /\ \A i \in 1..Len(feeds) :
        NoUrl(feeds[i]) =>
            /\ \A r \in 1..Len(fetched) : fetched[r].feed # i
            /\ \A c \in 1..Len(cache_log) : cache_log[c][1] # i
            /\ i \notin DOMAIN docs
            /\ i \notin DOMAIN items
    /\ \A r \in 1..Len(fetched) : fetched[r].url # <<>>
    /\ Cardinality(DOMAIN cache) <= Len(fetched)
    /\ pc = "returned" =>
        /\ \A i \in 1..Len(feeds) : ~ NoUrl(feeds[i]) => i \in DOMAIN items
        /\ Len(all_entries) =
             SumLen([i \in DOMAIN items |-> items[i].capped], DOMAIN items)

\* a feed without url came first, and the feed after it was fetched and
\* contributed
C6_Witness ==
    /\ pc = "returned"
    /\ Len(feeds) = 2
    /\ NoUrl(feeds[1])
    /\ Len(fetched) = 1
    /\ fetched[1].feed = 2
    /\ Len(all_entries) >= 1

RECURSIVE PairsFrom(_)
\* <<feed, position>> of every raw entry fetched from feed i on, in
\* feed-then-document order
PairsFrom(i) ==
    IF i > Len(feeds) THEN <<>>
    ELSE (IF i \in DOMAIN docs THEN [j \in 1..Len(docs[i]) |-> <<i, j>>] ELSE <<>>)
         \o PairsFrom(i + 1)

\* C7: the returned Articles are those of some of the surviving raw entries,
\* one Article per entry, in feed-then-document order, each with the category
\* (default "Uncategorized") and the url of its feed
C7_FeedThenDocumentOrder ==
    pc = "returned" =>
        \E S \in SUBSET {p \in Range(PairsFrom(1)) : p[2] \in Survivors(p[1])} :
            LET order == SelectSeq(PairsFrom(1), LAMBDA p : p \in S)
            IN  /\ Len(all_entries) = Len(order)
                /\ \A p \in 1..Len(order) :
                    ArticleOf(all_entries[p],
                              docs[order[p][1]][order[p][2]],
                              feeds[order[p][1]])

\* two feeds contributed, the first two Articles and the second, which has no
\* category, one
C7_Witness ==
    /\ pc = "returned"
    /\ Len(feeds) = 2
    /\ "category" \notin DOMAIN feeds[2]
    /\ docs = <<<<Entry3, Entry1>>, <<Entry1>>>>
    /\ Len(all_entries) = 3
    /\ all_entries[1].title = Entry3.title
    /\ all_entries[1].source = <<"T">>
    /\ all_entries[3].source = Uncategorized
    /\ all_entries[3].feed_url = U2

------------------------------------------------------------------------------
(* Claims about the field extractors *)

\* a time breakdown of the entry is present and converts
Converts(e, k) == k \in DOMAIN e /\ MakeDatetime(e[k]) # NoValue

\* C8: the published breakdown is tried first and the updated one second; a
\* published breakdown that does not convert counts as absent
C8_UpdatedAfterFailedPublished ==
    pc = "extracted" =>
        /\ Converts(entry, "published_parsed")
              => out[1] = MakeDatetime(entry.published_parsed)
        /\ (~ Converts(entry, "published_parsed") /\ Converts(entry, "updated_parsed"))
              => out[1] = MakeDatetime(entry.updated_parsed)

\* the raw date string: "published", else "updated", else empty
RawDate(e) ==
    IF "published" \in DOMAIN e /\ e.published # <<>> THEN e.published
    ELSE IF "updated" \in DOMAIN e /\ e.updated # <<>> THEN e.updated
    ELSE <<>>

\* C9 as stated: with no timestamp from either breakdown, publishedAt is unset
\* and publishedDisplay is the first ten characters of the raw date string
C9_DisplayIsPrefix ==
    (/\ pc = "extracted"
     /\ ~ Converts(entry, "published_parsed")
     /\ ~ Converts(entry, "updated_parsed"))
        => out = <<NoValue, Prefix(RawDate(entry), 10)>>

\* C9 as amended: publishedDisplay is the whole raw date string
C9_DisplayIsRaw ==
    (/\ pc = "extracted"
     /\ ~ Converts(entry, "published_parsed")
     /\ ~ Converts(entry, "updated_parsed"))
        => out = <<NoValue, RawDate(entry)>>

\* an entry with raw strings only, "published" longer than ten characters
C9_Witness ==
    /\ pc = "extracted"
    /\ entry = [published |-> RawLong, updated |-> RawOther]
    /\ out = <<NoValue, RawLong>>

MinOf(S) == CHOOSE i \in S : \A j \in S : i <= j

\* (a) the url of the first element of media_thumbnail
SourceA(e) ==
    IF /\ "media_thumbnail" \in DOMAIN e
       /\ "list" \in DOMAIN e.media_thumbnail
       /\ Len(e.media_thumbnail.list) >= 1
       /\ "dict" \in DOMAIN e.media_thumbnail.list[1]
       /\ "url" \in DOMAIN e.media_thumbnail.list[1].dict
       /\ e.media_thumbnail.list[1].dict.url # <<>>
    THEN e.media_thumbnail.list[1].dict.url
    ELSE None

\* (b) the url of the first media_content element with a url whose medium is
\* unset or "image"
SourceB(e) ==
    IF "media_content" \in DOMAIN e /\ "list" \in DOMAIN e.media_content
    THEN LET mc == e.media_content.list
             ok == {i \in 1..Len(mc) :
                      /\ "dict" \in DOMAIN mc[i]
                      /\ "url" \in DOMAIN mc[i].dict
                      /\ mc[i].dict.url # <<>>
                      /\ ("medium" \in DOMAIN mc[i].dict => mc[i].dict.medium = Image)}
         IN  IF ok # {} THEN mc[MinOf(ok)].dict.url ELSE None
    ELSE None

\* (c) the href of the first enclosure link whose type starts with "image/"
SourceC(e) ==
    IF "links" \in DOMAIN e /\ "list" \in DOMAIN e.links
    THEN LET ls == e.links.list
             ok == {i \in 1..Len(ls) :
                      /\ "dict" \in DOMAIN ls[i]
                      /\ "rel" \in DOMAIN ls[i].dict
                      /\ ls[i].dict.rel = Enclosure
                      /\ "type" \in DOMAIN ls[i].dict
                      /\ Len(ls[i].dict.type) >= 6
                      /\ SubSeq(ls[i].dict.type, 1, 6) = <<"i","m","a","g","e","/">>
                      /\ "href" \in DOMAIN ls[i].dict
                      /\ ls[i].dict.href # <<>>}
         IN  IF ok # {} THEN ls[MinOf(ok)].dict.href ELSE None
    ELSE None

\* (d) the src of the first img tag of the summary
SourceD(e) ==
    IF "summary" \in DOMAIN e
    THEN LET imgs == {i \in 1..Len(e.summary) :
                        "tag" \in DOMAIN e.summary[i] /\ e.summary[i].tag = Img}
         IN  IF imgs # {} /\ "src" \in DOMAIN e.summary[MinOf(imgs)]
                /\ e.summary[MinOf(imgs)].src # <<>>
             THEN e.summary[MinOf(imgs)].src
             ELSE None
    ELSE None

SurvivorOrder(i) ==
    SelectSeq([j \in 1..Len(docs[i]) |-> j], LAMBDA j : j \in Survivors(i))

\* C11: every Article the normalizer produces has a title and a link that are
\* strings, never null; an entry without a title gives the empty title and an
\* entry without a link gives the empty link
C11_TitleAndLinkStrings ==
    \A i \in DOMAIN items :
        \A p \in 1..Min(Len(items[i].filtered), Len(SurvivorOrder(i))) :
            LET it == items[i].filtered[p]
                e == docs[i][SurvivorOrder(i)[p]]
            IN  /\ it.title # None
                /\ it.link # None
                /\ "title" \notin DOMAIN e => it.title = <<>>
                /\ "link" \notin DOMAIN e => it.link = <<>>

------------------------------------------------------------------------------
(* build_apa_citation (utils/citation.py) *)

\* the other variables while a function is run on its own
PipelineIdle ==
    /\ feeds = <<>>
    /\ idx = 1
    /\ all_entries = <<>>
    /\ fetched = <<>>
    /\ docs = <<>>
    /\ cache = <<>>
    /\ cache_log = <<>>
    /\ items = <<>>
    /\ raised = ""
    /\ archive = NoFile
    /\ last_call = Idle

\* f"{x}" of a text value or None
Str(x) == IF x = None THEN <<"N","o","n","e">> ELSE x

DigitVal(c) == CHOOSE i \in 0..9 : Digits[i + 1] = c

\* the month names of strftime("%B")
MonthNames ==
    <<<<"J","a","n","u","a","r","y">>,
      <<"F","e","b","r","u","a","r","y">>,
      <<"M","a","r","c","h">>,
      <<"A","p","r","i","l">>,
      <<"M","a","y">>,
      <<"J","u","n","e">>,
      <<"J","u","l","y">>,
      <<"A","u","g","u","s","t">>,
      <<"S","e","p","t","e","m","b","e","r">>,
      <<"O","c","t","o","b","e","r">>,
      <<"N","o","v","e","m","b","e","r">>,
      <<"D","e","c","e","m","b","e","r">>>>

\* dateutil's parser.parse(text) brought down to (year, month, day), NoValue
\* when it raises: on None, on the empty string, on text that is no date and
\* on a day the month does not have.  Of the texts that are dates only the
\* form YYYY-MM-DD is modelled.
DateutilParse(text) ==
    IF /\ text # None
       /\ Len(text) = 10
       /\ text[5] = "-"
       /\ text[8] = "-"
       /\ \A i \in {1, 2, 3, 4, 6, 7, 9, 10} : text[i] \in Range(Digits)
    THEN LET y == 1000 * DigitVal(text[1]) + 100 * DigitVal(text[2])
                    + 10 * DigitVal(text[3]) + DigitVal(text[4])
             m == 10 * DigitVal(text[6]) + DigitVal(text[7])
             d == 10 * DigitVal(text[9]) + DigitVal(text[10])
             dt == MakeDatetime(<<y, m, d>>)
         IN  IF dt = NoValue THEN NoValue ELSE <<y, m, d>>
    ELSE NoValue

\* date.strftime("%Y, %B %d")
StrftimeLong(d) ==
    Pad2(d[1] \div 100) \o Pad2(d[1] % 100) \o <<",", " ">> \o MonthNames[d[2]]
        \o <<" ">> \o Pad2(d[3])

AuthorPlaceholder == <<"[","A","u","t","h","o","r","]">>
NoDatePlaceholder == <<"[","n",".","d",".","]">>
NoTitlePlaceholder == <<"[","N","o"," ","t","i","t","l","e","]">>
SourcePlaceholder == <<"[","S","o","u","r","c","e","]">>

\* the five parts of the citation string
CitationLine(author, date, title, source, url) ==
    author \o <<".", " ", "(">> \o date \o <<")", ".", " ">> \o title
        \o <<".", " ">> \o source \o <<".", " ">> \o url

build_apa_citation(e, author_overrides) ==
    LET author == Or(Or(Get(e, "author", None),
                        Get(author_overrides, Get(e, "source", None), None)),
                     AuthorPlaceholder)
        parsed == DateutilParse(Get(e, "published", None))
        date == IF parsed # NoValue THEN StrftimeLong(parsed)
                ELSE NoDatePlaceholder
        title == Get(e, "title", NoTitlePlaceholder)
        source == Get(e, "source", SourcePlaceholder)
        url == Get(e, "link", None)
    IN  CitationLine(Str(author), date, Str(title), Str(source), Str(url))

Au == <<"A","u">>
Ex == <<"E","x">>
Ov == <<"O","v">>
Story == <<"a"," ","s">>
Soon == <<"s","o","o","n">>
Feb29 == <<2024, 2, 29, 10, 0, 0>>
Feb30Text == <<"2","0","2","3","-","0","2","-","3","0">>
Jan02Text == <<"2","0","2","4","-","0","1","-","0","2">>

\* the entries handed to build_apa_citation: an item of the pipeline carries
\* its datetime and the display string made from it, or no datetime and the
\* raw date text of the feed
CitationEntries ==
    {e \in {   Opt("author", ap, a)
            @@ Opt("published_parsed", pp # NoValue, pp)
            @@ Opt("published", p # None, p)
            @@ Opt("title", t # None, t)
            @@ Opt("link", l # None, l)
            @@ Opt("source", s # None, s)
            : ap \in BOOLEAN, a \in {None, <<>>, Au},
              pp \in {NoValue, Feb29},
              p \in {None, <<>>, Soon, Feb30Text, Jan02Text, Strftime(Feb29)},
              t \in {None, Story},
              l \in {None, L1},
              s \in {None, <<>>, Ex} } :
        "published_parsed" \in DOMAIN e
            => Get(e, "published", None) = Strftime(Feb29)}

\* the author_overrides dict: empty, an author for the source Ex, an empty
\* author for it
OverrideChoices == {<<>>, Ex :> Ov, Ex :> <<>>}

InitCitation ==
    /\ entry \in [entry : CitationEntries, author_overrides : OverrideChoices]
    /\ out = Idle
    /\ pc = "extract"
    /\ PipelineIdle

\* build_apa_citation(entry, author_overrides)
BuildApaCitation ==
    /\ pc = "extract"
    /\ out' = build_apa_citation(entry.entry, entry.author_overrides)
    /\ pc' = "extracted"
    /\ UNCHANGED <<feeds, idx, all_entries, fetched, docs, cache, cache_log,
                   items, raised, entry,
                   archive, last_call>>

NextCitation == BuildApaCitation

SpecCitation == InitCitation /\ [][NextCitation]_vars

\* the author of the entry is unset
AuthorUnset(e) == Get(e, "author", None) = None

\* C12: the citation of an Article with no author and no publishedAt is
\* "<Category>. (n.d.). <Title>. <Category>. <Link>"
C12_CategoryAndNd ==
    pc = "extracted" =>
        LET e == entry.entry
        IN  /\ AuthorUnset(e)
            /\ "published_parsed" \notin DOMAIN e
            /\ {"title", "source", "link"} \subseteq DOMAIN e
            => out = CitationLine(e.source, <<"n",".","d",".">>, e.title,
                                  e.source, e.link)

------------------------------------------------------------------------------
(* format_author_for_apa and make_apa_citation (app.py) *)

\* the most names in an authors list
MaxAuthors == 3

\* the upper-case letter of each lower-case letter
UpperOf ==
    [c \in Range(LowerLetters) |->
        UpperLetters[CHOOSE i \in 1..Len(LowerLetters) : LowerLetters[i] = c]]

UpperChar(c) == IF c \in DOMAIN UpperOf THEN UpperOf[c] ELSE c

RECURSIVE Split(_)
\* str.split(): the runs of characters between white space
Split(s) ==
    LET t == LStrip(s, {" "})
        n == IF \E i \in 1..Len(t) : t[i] = " "
             THEN (CHOOSE i \in 1..Len(t) :
                      t[i] = " " /\ \A j \in 1..(i - 1) : t[j] # " ") - 1
             ELSE Len(t)
    IN  IF t = <<>> THEN <<>>
        ELSE <<SubSeq(t, 1, n)>> \o Split(SubSeq(t, n + 1, Len(t)))

RECURSIVE IntText(_)
\* str(n) of an integer n >= 0
IntText(n) ==
    IF n < 10 THEN <<Digits[n + 1]>>
    ELSE IntText(n \div 10) \o <<Digits[(n % 10) + 1]>>

format_author_for_apa(name) ==
    LET cleaned == SelectSeq(Strip(name), LAMBDA c : c # ",")
        parts == SelectSeq(Split(cleaned), LAMBDA p : p # <<>>)
        last == parts[Len(parts)]
        front == SelectSeq(SubSeq(parts, 1, Len(parts) - 1),
                           LAMBDA p : p # <<>>)
        initials == [i \in 1..Len(front) |-> <<UpperChar(front[i][1]), ".">>]
    IN  IF parts = <<>> THEN <<>>
        ELSE IF initials # <<>>
             THEN last \o <<",", " ">> \o Join(initials, <<" ">>)
             ELSE last

\* the names joined by ", " alone
AuthorFieldCommas(item) ==
    LET authors == Get(item, "authors", <<>>)
        kept == SelectSeq(authors, LAMBDA a : a # <<>>)
        names == [i \in 1..Len(kept) |-> format_author_for_apa(kept[i])]
    IN  IF authors # <<>> THEN Join(names, <<",", " ">>)
        ELSE Get(item, "site", <<>>)

\* author_field of make_apa_citation
AuthorField(item) ==
    LET authors == Get(item, "authors", <<>>)
        kept == SelectSeq(authors, LAMBDA a : a # <<>>)
        names == [i \in 1..Len(kept) |-> format_author_for_apa(kept[i])]
    IN  IF authors # <<>>
        THEN IF Len(names) = 1 THEN names[1]
             ELSE IF Len(names) = 2
                  THEN names[1] \o <<" ", "&", " ">> \o names[2]
             ELSE IF Len(names) > 2
                  THEN Join(SubSeq(names, 1, Len(names) - 1), <<",", " ">>)
                           \o <<",", " ", "&", " ">> \o names[Len(names)]
             ELSE <<>>
        ELSE Get(item, "site", <<>>)

\* make_apa_citation(item) when datetime.now() is in the year now_year
make_apa_citation(item, now_year) ==
    LET pub_dt == Get(item, "published_dt", NoValue)
        date_str == IF pub_dt # NoValue
                    THEN IntText(pub_dt[1]) \o <<",", " ">>
                             \o MonthNames[pub_dt[2]] \o <<" ">>
                             \o IntText(pub_dt[3])
                    ELSE Pad2(now_year \div 100) \o Pad2(now_year % 100)
        stripped == Strip(Get(item, "title", <<>>))
        title == IF stripped # <<>>
                 THEN <<UpperChar(stripped[1])>> \o Tail(stripped)
                 ELSE stripped
        site == Strip(Get(item, "site", <<>>))
        url == Strip(Get(item, "link", <<>>))
    IN  AuthorField(item) \o <<" ", "(">> \o date_str \o <<")", ".", " ">>
            \o title \o <<".", " ">> \o site \o <<".", " ">> \o url

Al == <<"A","l">>
JoDi == <<"j","o"," ","d","i">>
Abc == <<"a",","," ","b"," ","c">>
Blank == <<" ">>
May05 == <<2024, 5, 5, 10, 0, 0>>

\* the author names the items carry; the empty name is one of them
AuthorNames == {Al, JoDi, Abc, Blank, <<>>}

\* the items handed to make_apa_citation
ApaItems ==
    {   Opt("authors", ap, a)
     @@ Opt("site", s # None, s)
     @@ Opt("published_dt", d # NoValue, d)
     @@ Opt("title", t # None, t)
     @@ Opt("link", l # None, l)
     : ap \in BOOLEAN, a \in SeqsUpTo(AuthorNames, MaxAuthors),
       s \in {None, Ex},
       d \in {NoValue, May05},
       t \in {None, <<" ">> \o Story},
       l \in {None, L1} }

\* the years datetime.now() may be in
NowYears == {2025, 2026}

InitApa ==
    /\ entry \in ApaItems
    /\ out = Idle
    /\ pc = "extract"
    /\ PipelineIdle

\* citation = make_apa_citation(item)
MakeApaCitation ==
    /\ pc = "extract"
    /\ \E now_year \in NowYears : out' = make_apa_citation(entry, now_year)
    /\ pc' = "extracted"
    /\ UNCHANGED <<feeds, idx, all_entries, fetched, docs, cache, cache_log,
                   items, raised, entry,
                   archive, last_call>>

NextApa == MakeApaCitation

SpecApa == InitApa /\ [][NextApa]_vars

\* what each author name of the model is rewritten to: commas dropped, the
\* last word first, then the upper-cased initials of the words before it
ApaNameOf ==
       (Al :> Al)
    @@ (JoDi :> <<"d","i",","," ","J",".">>)
    @@ (Abc :> <<"c",","," ","A","."," ","B",".">>)
    @@ (Blank :> <<>>)

\* the separator after the i-th of n names
SepAfter(i, n) ==
    IF n = 2 THEN <<" ","&"," ">>
    ELSE IF i = n - 1 THEN <<",", " ", "&", " ">>
    ELSE <<",", " ">>

RECURSIVE JoinedFrom(_, _)
\* the names from the i-th on, each once, in order, with the separators
JoinedFrom(names, i) ==
    IF i = Len(names) THEN names[i]
    ELSE names[i] \o SepAfter(i, Len(names)) \o JoinedFrom(names, i + 1)

\* the citation begins with the author field `field`
BeginsWithField(field) == Prefix(out, Len(field) + 2) = field \o <<" ", "(">>

\* C13 as stated: the author field is the names of a non-empty author list
\* as they are, one alone, two joined with " & ", three or more with ", " and
\* a final ", & ", each name once and in list order
C13_AuthorsAsIs ==
    pc = "extracted" /\ Get(entry, "authors", <<>>) # <<>>
        => BeginsWithField(JoinedFrom(entry.authors, 1))

\* C13 amended: the author field is the non-empty names, each rewritten to
\* the last word followed by the initials of the others, one alone, two joined
\* with " & ", three or more with ", " and a final ", & ", each rewritten name
\* once and in list order
C13_AuthorsFormattedAndJoined ==
    pc = "extracted" =>
        LET kept == SelectSeq(Get(entry, "authors", <<>>), LAMBDA a : a # <<>>)
            names == [i \in 1..Len(kept) |-> ApaNameOf[kept[i]]]
        IN  kept # <<>> => BeginsWithField(JoinedFrom(names, 1))

C13_Witness ==
    /\ pc = "extracted"
    /\ Get(entry, "authors", <<>>) = <<JoDi, Al, Abc>>
    /\ BeginsWithField(<<"d","i",","," ","J",".",","," ","A","l",","," ","&",
                         " ","c",","," ","A","."," ","B",".">>)

------------------------------------------------------------------------------
(* The raw cache after a run *)

\* the file name each category of the model is to give: letters and digits
\* kept, symbols at the ends dropped, "feed" when nothing is left
StemOf ==
       (<<"T">> :> <<"T">>)
    @@ (<<"T","!">> :> <<"T">>)
    @@ (<<"!">> :> <<"f","e","e","d">>)
    @@ (<<>> :> <<"f","e","e","d">>)
    @@ (<<" ","-","_">> :> <<"f","e","e","d">>)
    @@ (Uncategorized :> Uncategorized)

FileOf(feed) ==
    StemOf[Get(feed, "category", Uncategorized)] \o <<".","j","s","o","n">>

FileNames == {StemOf[c] \o <<".","j","s","o","n">> : c \in DOMAIN StemOf}

\* the feeds fetched whose category is to give the file `name`
WritersOf(name) == {i \in DOMAIN docs : FileOf(feeds[i]) = name}

\* how the cache write of feed i ended
OutcomeOf(i) ==
    cache_log[CHOOSE k \in 1..Len(cache_log) : cache_log[k][1] = i][2]

MaxOf(S) == CHOOSE i \in S : \A j \in S : j <= i

\* one cache write per feed that has a url, after its fetch, in feed order;
\* none for a feed without a url
OneWritePerFetch ==
    /\ \A i \in 1..Len(feeds) :
          Cardinality({k \in 1..Len(cache_log) : cache_log[k][1] = i})
              = IF i < idx /\ ~ NoUrl(feeds[i]) THEN 1 ELSE 0
    /\ \A k, l \in 1..Len(cache_log) :
          k < l => cache_log[k][1] < cache_log[l][1]

\* C14 as stated: one snapshot is written per FeedSource that has a url, and
\* after a run the file of a sanitized name holds the raw entries of the last
\* FeedSource processed whose category sanitizes to that name; an empty or
\* all-symbol category gives the stem "feed"
C14_LastSourceInFile ==
    pc = "returned" =>
        /\ OneWritePerFetch
        /\ DOMAIN cache \subseteq FileNames
        /\ \A name \in FileNames :
              IF WritersOf(name) = {} THEN name \notin DOMAIN cache
              ELSE /\ name \in DOMAIN cache
                   /\ cache[name] = [whole |-> TRUE,
                                     entries |-> docs[MaxOf(WritersOf(name))]]

\* C14 amended: one write is attempted per FeedSource that has a url, and
\* after a run the file of a sanitized name is decided by the last FeedSource
\* with that sanitized category whose write got past opening the file: its
\* raw entries when the write succeeded, a cut-short file when the dump
\* failed, and no file when there is no such FeedSource
C14_LastOpenedWriteInFile ==
    pc = "returned" =>
        /\ OneWritePerFetch
        /\ DOMAIN cache \subseteq FileNames
        /\ \A name \in FileNames :
              LET opened == {i \in WritersOf(name) :
                                OutcomeOf(i) # "open_raised"}
                  last == MaxOf(opened)
              IN  IF opened = {} THEN name \notin DOMAIN cache
                  ELSE /\ name \in DOMAIN cache
                       /\ cache[name] =
                             IF OutcomeOf(last) = "written"
                             THEN [whole |-> TRUE, entries |-> docs[last]]
                             ELSE [whole |-> FALSE, entries |-> <<>>]

\* two feeds whose categories T and T! share the file T.json, both written:
\* the file holds the entries of the second, which differ from the first's
C14_Witness ==
    /\ pc = "returned"
    /\ Len(feeds) = 2
    /\ DOMAIN docs = {1, 2}
    /\ Get(feeds[1], "category", Uncategorized) = <<"T">>
    /\ Get(feeds[2], "category", Uncategorized) = <<"T","!">>
    /\ OutcomeOf(1) = "written"
    /\ OutcomeOf(2) = "written"
    /\ docs[1] # docs[2]
    /\ docs[1] # <<>>
    /\ cache[<<"T",".","j","s","o","n">>].entries = docs[2]

------------------------------------------------------------------------------
(* The archive (utils/archive.py, and load_archive to remove_from_archive   *)
(* of app.py).  The file is [kind |-> "missing"], [kind |-> "invalid"] for  *)
(* a file json.load cannot read (empty, or cut short by a failed dump), or  *)
(* [kind |-> "json", data |-> list].  A legacy list holds [hash |-> link]   *)
(* for the sha256 string of a link.                                         *)

\* the most entries an archive file holds at the start
MaxStored == 3

\* isinstance(x, str) of an element of the list in the file
IsHash(x) == "hash" \in DOMAIN x

_hash_link(link) == [hash |-> Or(link, <<>>)]

\* _load_raw, and load_archive of app.py
_load_raw(file) == IF file.kind = "json" THEN file.data ELSE <<>>

get_archived(file) ==
    LET raw == _load_raw(file)
    IN  IF raw = <<>> THEN <<>>
        ELSE IF IsHash(raw[1]) THEN <<>>
        ELSE raw

is_archived(link, archived_items) ==
    IF archived_items # <<>> /\ ~ IsHash(archived_items[1])
    THEN \E i \in 1..Len(archived_items) :
            Get(archived_items[i], "link", None) = link
    ELSE FALSE

\* json.dump takes the entry: it carries no datetime
Serializable(e) ==
    /\ Get(e, "published_dt", NoValue) = NoValue
    /\ Get(e, "published_parsed", NoValue) = NoValue

\* the file after open(path, "w") and json.dump(data, f, indent=2): the dump
\* writes piece by piece and raises at the first datetime
Dumped(data) ==
    IF \A i \in 1..Len(data) : Serializable(data[i])
    THEN [kind |-> "json", data |-> data]
    ELSE [kind |-> "invalid"]

\* some entry of data has the link of e
HasLinkOf(data, e) ==
    \E i \in 1..Len(data) : Get(data[i], "link", None) = Get(e, "link", None)

\* add_to_archive with no test of the link
AddAlways(e, file) ==
    LET raw == _load_raw(file)
        data == IF raw # <<>> /\ IsHash(raw[1]) THEN <<>> ELSE raw
    IN  Dumped(Append(data, e))

\* the file after add_to_archive(e, path) of utils/archive.py
add_to_archive(e, file) ==
    LET raw == _load_raw(file)
        data == IF raw # <<>> /\ IsHash(raw[1]) THEN <<>> ELSE raw
    IN  IF ~ HasLinkOf(data, e) THEN Dumped(Append(data, e)) ELSE file

\* the file after remove_from_archive(link, path) of utils/archive.py
remove_from_archive(link, file) ==
    LET data == _load_raw(file)
    IN  IF data = <<>> THEN file
        ELSE IF IsHash(data[1])
             THEN Dumped(SelectSeq(data, LAMBDA x : x # _hash_link(link)))
             ELSE Dumped(SelectSeq(data,
                                   LAMBDA x : Get(x, "link", None) # link))

\* the file after add_to_archive(item) of app.py; save_archive swallows what
\* the dump raises
\* (x.get of a legacy string raises before anything is written)
app_add_to_archive(item, file) ==
    LET its == _load_raw(file)
    IN  IF its # <<>> /\ IsHash(its[1]) THEN file
        ELSE IF ~ HasLinkOf(its, item) THEN Dumped(<<item>> \o its)
        ELSE file

\* the file after remove_from_archive(link) of app.py
app_remove_from_archive(link, file) ==
    LET its == _load_raw(file)
    IN  IF its # <<>> /\ IsHash(its[1]) THEN file
        ELSE Dumped(SelectSeq(its, LAMBDA x : Get(x, "link", None) # link))

Saved1 == [link |-> L1, title |-> <<"a">>]
\* the link of Saved1 under another title
Saved1b == [link |-> L1, title |-> <<"b">>]
Saved2 == [link |-> L2, title |-> <<"a">>]
\* carries its datetime, as the items of parse_feed do
Dated2 == [link |-> L2, title |-> <<"a">>, published_dt |-> May05]
NoLink == [title |-> <<"c">>]

\* the entries handed to add_to_archive
ArchiveEntries == {Saved1, Saved1b, Saved2, Dated2, NoLink}

\* the links handed to remove_from_archive
ArchiveLinks == {L1, L2, <<>>}

\* the files at the start: none, an empty one, a list of dicts with pairwise
\* distinct links
ArchiveFiles ==
    {NoFile, [kind |-> "invalid"]}
        \cup {[kind |-> "json", data |-> d] :
                 d \in {x \in SeqsUpTo({e \in ArchiveEntries : Serializable(e)},
                                       MaxStored) :
                           \A i, j \in 1..Len(x) :
                               i # j => Get(x[i], "link", None)
                                            # Get(x[j], "link", None)}}

\* last_call after the call `op` with the link `link` on the file `before`
Called(op, link, removed) ==
    [op |-> op, link |-> link, before |-> archive, removed |-> removed]

InitArchive ==
    /\ archive \in ArchiveFiles
    /\ last_call = [op |-> "none", link |-> None, before |-> archive,
                    removed |-> {}]
    /\ pc = "archive"
    /\ entry = Idle
    /\ out = Idle
    /\ feeds = <<>>
    /\ idx = 1
    /\ all_entries = <<>>
    /\ fetched = <<>>
    /\ docs = <<>>
    /\ cache = <<>>
    /\ cache_log = <<>>
    /\ items = <<>>
    /\ raised = ""

\* add_to_archive(entry, path)
AddToArchive ==
    /\ pc = "archive"
    /\ \E e \in ArchiveEntries :
          /\ archive' = add_to_archive(e, archive)
          /\ last_call' = Called("add", Get(e, "link", None),
                                 last_call.removed \ {Get(e, "link", None)})
    /\ UNCHANGED <<feeds, pc, idx, all_entries, fetched, docs, cache,
                   cache_log, items, raised, entry, out>>

\* remove_from_archive(link, path)
RemoveFromArchive ==
    /\ pc = "archive"
    /\ \E link \in ArchiveLinks :
          /\ archive' = remove_from_archive(link, archive)
          /\ last_call' = Called("remove", link, last_call.removed \cup {link})
    /\ UNCHANGED <<feeds, pc, idx, all_entries, fetched, docs, cache,
                   cache_log, items, raised, entry, out>>

\* add_to_archive(item) of app.py
AppAddToArchive ==
    /\ pc = "archive"
    /\ \E item \in ArchiveEntries :
          /\ archive' = app_add_to_archive(item, archive)
          /\ last_call' = Called("add", Get(item, "link", None),
                                 last_call.removed \ {Get(item, "link", None)})
    /\ UNCHANGED <<feeds, pc, idx, all_entries, fetched, docs, cache,
                   cache_log, items, raised, entry, out>>

\* remove_from_archive(link) of app.py
AppRemoveFromArchive ==
    /\ pc = "archive"
    /\ \E link \in ArchiveLinks :
          /\ archive' = app_remove_from_archive(link, archive)
          /\ last_call' = Called("remove", link, last_call.removed \cup {link})
    /\ UNCHANGED <<feeds, pc, idx, all_entries, fetched, docs, cache,
                   cache_log, items, raised, entry, out>>

NextArchive ==
    \/ AddToArchive
    \/ RemoveFromArchive
    \/ AppAddToArchive
    \/ AppRemoveFromArchive

SpecArchive == InitArchive /\ [][NextArchive]_vars

\* the entries stored in the file
Stored == IF archive.kind = "json" THEN archive.data ELSE <<>>

LinkOf(e) == IF "link" \in DOMAIN e THEN e.link ELSE None

====
